---- MODULE Spec2Model ----
(***************************************************************************)
(* Password generation of rcli (src/src/process/gen_pass.rs).              *)
(*                                                                         *)
(* process_genpass builds a PasswordConfig, validates it, generates the    *)
(* password, prints it and reports its strength.  Characters are bytes     *)
(* (u8), written here as their ASCII codes.  The random source and the    *)
(* zxcvbn estimator are outside the repository: a draw is any element the  *)
(* call may return, a score is any value of zxcvbn::Score.                 *)
(***************************************************************************)
EXTENDS Integers, Sequences, FiniteSets, TLC

(* ------------------------------------------------------------------ *)
(* Bounds of the exploration                                          *)
(* ------------------------------------------------------------------ *)

\* The fill loop and the shuffle are explored for passwords of at most
\* MaxLen characters.
MaxLen == 4

\* A random draw from a slice returns one of its first MaxPick elements or
\* its last element.
MaxPick == 1

(* ------------------------------------------------------------------ *)
(* Constants of the program                                           *)
(* ------------------------------------------------------------------ *)

\* b"ABCDEFGHJKLMNPQRSTUVWXYZ"
UPPER == <<65, 66, 67, 68, 69, 70, 71, 72, 74, 75, 76, 77, 78,
           80, 81, 82, 83, 84, 85, 86, 87, 88, 89, 90>>

\* b"abcdefghijkmnopqrstuvwxyz"
LOWER == <<97, 98, 99, 100, 101, 102, 103, 104, 105, 106, 107,
           109, 110, 111, 112, 113, 114, 115, 116, 117, 118, 119, 120, 121, 122>>

\* b"123456789"
NUMBER == <<49, 50, 51, 52, 53, 54, 55, 56, 57>>

\* b"!@#$%^&*_"
SYMBOL == <<33, 64, 35, 36, 37, 94, 38, 42, 95>>

\* config.length > 128
MaxPasswordLength == 128

\* the width of u8
U8Modulus == 256

Range(s) == {s[k] : k \in 1..Len(s)}

(* ------------------------------------------------------------------ *)
(* Results                                                            *)
(* ------------------------------------------------------------------ *)

Res(t, m, l, n) == [tag |-> t, msg |-> m, length |-> l, types |-> n]

Pending == Res("Pending", "", 0, 0)
Ok == Res("Ok", "", 0, 0)
Err(m) == Res("Err", m, 0, 0)
Panic == Res("Panic", "attempt to subtract with overflow", 0, 0)

ErrZeroLength == Err("Password length cannot be zero")
ErrTooLong == Err("Password length cannot exceed 128 characters")
ErrNoType == Err("At least one character type must be selected")
ErrTooShort(l, n) ==
    Res("Err", "Password length {} is too short for {} required character types", l, n)
ErrEmptyCharset == Err("Character set cannot be empty")
ErrSelect == Err("Failed to select random character")
ErrNoAvailable == Err("No available characters for password generation")
ErrSelectAvailable == Err("Failed to select random character from available set")
ErrUtf8 == Err("Failed to convert password to string: {}")

(* ------------------------------------------------------------------ *)
(* State                                                              *)
(* ------------------------------------------------------------------ *)

VARIABLES
    config,           \* PasswordConfig
    stack,            \* the call stack, innermost frame last
    pc,               \* the position in the innermost frame
    charset_builder,  \* CharSetBuilder {chars, required_chars}
    available_chars,  \* generate_password's locals
    required_chars,
    password_chars,
    remaining_length,
    i,                \* iterations of the fill loop done so far
    password,         \* process_genpass's local: the String generate_password returned
    stdout,           \* lines written by println!
    stderr,           \* lines written by eprintln!
    result            \* what process_genpass returned

vars == <<config, stack, pc, charset_builder, available_chars, required_chars,
          password_chars, remaining_length, i, password, stdout, stderr, result>>

PasswordConfig ==
    [length : 0..(U8Modulus - 1), use_upper : BOOLEAN, use_lower : BOOLEAN,
     use_number : BOOLEAN, use_symbol : BOOLEAN]

Top == IF stack = <<>> THEN "" ELSE stack[Len(stack)]
Pop == SubSeq(stack, 1, Len(stack) - 1)

(* ------------------------------------------------------------------ *)
(* validate_password_config                                           *)
(* ------------------------------------------------------------------ *)

Flags(c) == <<c.use_upper, c.use_lower, c.use_number, c.use_symbol>>

\* [..].iter().filter(|&&x| x).count()
RequiredTypes(c) == Cardinality({k \in 1..4 : Flags(c)[k]})

\* n as u8
AsU8(n) == n % U8Modulus

\* Fault: the class check is made before the length checks.
validate_password_config_Reordered(c) ==
    IF ~c.use_upper /\ ~c.use_lower /\ ~c.use_number /\ ~c.use_symbol THEN ErrNoType
    ELSE IF c.length = 0 THEN ErrZeroLength
    ELSE IF c.length > MaxPasswordLength THEN ErrTooLong
    ELSE IF c.length < AsU8(RequiredTypes(c)) THEN ErrTooShort(c.length, RequiredTypes(c))
    ELSE Ok

\* Fault: the length is not compared with the number of required types.
validate_password_config_NoShortCheck(c) ==
    IF c.length = 0 THEN ErrZeroLength
    ELSE IF c.length > MaxPasswordLength THEN ErrTooLong
    ELSE IF ~c.use_upper /\ ~c.use_lower /\ ~c.use_number /\ ~c.use_symbol THEN ErrNoType
    ELSE Ok

validate_password_config(c) ==
    IF c.length = 0 THEN ErrZeroLength
    ELSE IF c.length > MaxPasswordLength THEN ErrTooLong
    ELSE IF ~c.use_upper /\ ~c.use_lower /\ ~c.use_number /\ ~c.use_symbol THEN ErrNoType
    ELSE IF c.length < AsU8(RequiredTypes(c)) THEN ErrTooShort(c.length, RequiredTypes(c))
    ELSE Ok

(* ------------------------------------------------------------------ *)
(* The random source                                                  *)
(* ------------------------------------------------------------------ *)

\* slice.choose(&mut rng): None for an empty slice, else any element.
Choose(slice) ==
    {slice[k] : k \in {j \in 1..Len(slice) : j <= MaxPick \/ j = Len(slice)}}

\* Fault: a shuffle that fills every position with any element of the slice.
Shuffle_Replace(s) == [1..Len(s) -> Range(s)]

\* slice.shuffle(&mut rng): any rearrangement of the slice.
Shuffle(s) ==
    {[k \in 1..Len(s) |-> s[p[k]]] : p \in Permutations(1..Len(s))}

(* ------------------------------------------------------------------ *)
(* process_genpass                                                    *)
(* ------------------------------------------------------------------ *)

NewBuilder == [chars |-> <<>>, required_chars |-> <<>>]

Init ==
    /\ config \in PasswordConfig
    /\ stack = <<"process_genpass">>
    /\ pc = "validate"
    /\ charset_builder = NewBuilder
    /\ available_chars = <<>>
    /\ required_chars = <<>>
    /\ password_chars = <<>>
    /\ remaining_length = 0
    /\ i = 0
    /\ password = <<>>
    /\ stdout = <<>>
    /\ stderr = <<>>
    /\ result = Pending

\* process_genpass returns r
Return(r) ==
    /\ result' = r
    /\ stack' = <<>>
    /\ pc' = "done"

\* Fault: process_genpass goes to generate_password without validating.
CallValidate_Skip ==
    /\ Top = "process_genpass" /\ pc = "validate"
    /\ pc' = "generate"
    /\ UNCHANGED <<config, stack, charset_builder, available_chars, required_chars,
                   password_chars, remaining_length, i, password, stdout, stderr, result>>

\* validate_password_config(&config)  -- the call
CallValidate ==
    /\ Top = "process_genpass" /\ pc = "validate"
    /\ stack' = Append(stack, "validate_password_config")
    /\ pc' = "check"
    /\ UNCHANGED <<config, charset_builder, available_chars, required_chars,
                   password_chars, remaining_length, i, password, stdout, stderr, result>>

\* Fault: the verdict of validate_password_config is dropped.
ValidateReturn_NoPropagate ==
    /\ Top = "validate_password_config" /\ pc = "check"
    /\ stack' = Pop
    /\ pc' = "generate"
    /\ UNCHANGED <<config, charset_builder, available_chars, required_chars,
                   password_chars, remaining_length, i, password, stdout, stderr, result>>

\* validate_password_config returns; the ? of process_genpass propagates an error
ValidateReturn ==
    /\ Top = "validate_password_config" /\ pc = "check"
    /\ IF validate_password_config(config).tag = "Err"
         THEN Return(validate_password_config(config))
         ELSE /\ stack' = Pop
              /\ pc' = "generate"
              /\ UNCHANGED result
    /\ UNCHANGED <<config, charset_builder, available_chars, required_chars,
                   password_chars, remaining_length, i, password, stdout, stderr>>

\* generate_password(&config)  -- the call, and CharSetBuilder::new()
CallGenerate ==
    /\ Top = "process_genpass" /\ pc = "generate"
    /\ stack' = Append(stack, "generate_password")
    /\ pc' = "add_upper"
    /\ charset_builder' = NewBuilder
    /\ UNCHANGED <<config, available_chars, required_chars, password_chars,
                   remaining_length, i, password, stdout, stderr, result>>

(* ------------------------------------------------------------------ *)
(* CharSetBuilder                                                     *)
(* ------------------------------------------------------------------ *)

\* Fault: the pool of a class that is not enabled is added to chars.
add_charset_Always(self, charset, enabled) ==
    IF ~enabled THEN {[r |-> Ok, b |-> [self EXCEPT !.chars = @ \o charset]]}
    ELSE {[r |-> Ok,
           b |-> [chars |-> self.chars \o charset,
                  required_chars |-> Append(self.required_chars, random_char)]] :
            random_char \in Choose(charset)}

\* Fault: the required character is put in front of required_chars.
add_charset_Front(self, charset, enabled) ==
    IF ~enabled THEN {[r |-> Ok, b |-> self]}
    ELSE {[r |-> Ok,
           b |-> [chars |-> self.chars \o charset,
                  required_chars |-> <<random_char>> \o self.required_chars]] :
            random_char \in Choose(charset)}

\* CharSetBuilder::add_charset: the outcomes [r: the Result, b: the builder after]
add_charset(self, charset, enabled) ==
    IF ~enabled THEN {[r |-> Ok, b |-> self]}
    ELSE IF charset = <<>> THEN {[r |-> ErrEmptyCharset, b |-> self]}
    ELSE IF Choose(charset) = {}
      THEN {[r |-> ErrSelect, b |-> [self EXCEPT !.chars = @ \o charset]]}
    ELSE {[r |-> Ok,
           b |-> [chars |-> self.chars \o charset,
                  required_chars |-> Append(self.required_chars, random_char)]] :
            random_char \in Choose(charset)}

(* ------------------------------------------------------------------ *)
(* generate_password                                                  *)
(* ------------------------------------------------------------------ *)

\* charset_builder.add_charset(charset, enabled)?  -- an error leaves
\* generate_password and, through the ? of process_genpass, process_genpass
AddCharsetStep(at, charset, enabled, next) ==
    /\ Top = "generate_password" /\ pc = at
    /\ \E o \in add_charset(charset_builder, charset, enabled) :
         /\ charset_builder' = o.b
         /\ IF o.r.tag = "Err"
              THEN Return(o.r)
              ELSE pc' = next /\ UNCHANGED <<stack, result>>
    /\ UNCHANGED <<config, available_chars, required_chars, password_chars,
                   remaining_length, i, password, stdout, stderr>>

AddUpper == AddCharsetStep("add_upper", UPPER, config.use_upper, "add_lower")
AddLower == AddCharsetStep("add_lower", LOWER, config.use_lower, "add_number")
AddNumber == AddCharsetStep("add_number", NUMBER, config.use_number, "add_symbol")
AddSymbol == AddCharsetStep("add_symbol", SYMBOL, config.use_symbol, "build")

\* let (available_chars, mut required_chars) = charset_builder.build();
\* if available_chars.is_empty() { return Err(..) }
Build ==
    /\ Top = "generate_password" /\ pc = "build"
    /\ available_chars' = charset_builder.chars
    /\ required_chars' = charset_builder.required_chars
    /\ IF charset_builder.chars = <<>>
         THEN Return(ErrNoAvailable)
         ELSE pc' = "append" /\ UNCHANGED <<stack, result>>
    /\ UNCHANGED <<config, charset_builder, password_chars, remaining_length, i,
                   password, stdout, stderr>>

\* let mut password_chars = Vec::with_capacity(..);
\* password_chars.append(&mut required_chars);   -- required_chars is left empty
AppendRequired ==
    /\ Top = "generate_password" /\ pc = "append"
    /\ password_chars' = <<>> \o required_chars
    /\ required_chars' = <<>>
    /\ pc' = "remaining"
    /\ UNCHANGED <<config, stack, charset_builder, available_chars, remaining_length,
                   i, password, stdout, stderr, result>>

\* a - b on u8: the difference, or on underflow a panic (overflow checks on)
\* or the wrapped difference (overflow checks off)
Sub8(a, b) ==
    IF a >= b THEN {[panic |-> FALSE, value |-> a - b]}
    ELSE {[panic |-> TRUE, value |-> 0],
          [panic |-> FALSE, value |-> (a - b) % U8Modulus]}

\* Fault: the required characters are not subtracted from the fill count.
ComputeRemaining_NoSub ==
    /\ Top = "generate_password" /\ pc = "remaining"
    /\ remaining_length' = config.length
    /\ i' = 0
    /\ pc' = "fill"
    /\ UNCHANGED <<config, stack, charset_builder, available_chars, required_chars,
                   password_chars, password, stdout, stderr, result>>

\* let remaining_length = config.length - password_chars.len() as u8;
ComputeRemaining ==
    /\ Top = "generate_password" /\ pc = "remaining"
    /\ \E d \in Sub8(config.length, AsU8(Len(password_chars))) :
         IF d.panic
           THEN Return(Panic) /\ UNCHANGED <<remaining_length, i>>
           ELSE /\ remaining_length' = d.value
                /\ i' = 0
                /\ pc' = "fill"
                /\ UNCHANGED <<stack, result>>
    /\ UNCHANGED <<config, charset_builder, available_chars, required_chars,
                   password_chars, password, stdout, stderr>>

\* the length password_chars has when the fill loop ends
FillTarget == Len(password_chars) - i + remaining_length

\* for _ in 0..remaining_length { .. }  -- one iteration
FillStep ==
    /\ Top = "generate_password" /\ pc = "fill"
    /\ i < remaining_length
    /\ FillTarget <= MaxLen
    /\ IF Choose(available_chars) = {}
         THEN Return(ErrSelectAvailable) /\ UNCHANGED <<password_chars, i>>
         ELSE /\ \E random_char \in Choose(available_chars) :
                   password_chars' = Append(password_chars, random_char)
              /\ i' = i + 1
              /\ UNCHANGED <<stack, pc, result>>
    /\ UNCHANGED <<config, charset_builder, available_chars, required_chars,
                   remaining_length, password, stdout, stderr>>

\* for _ in 0..remaining_length { .. }  -- the range is exhausted
FillDone ==
    /\ Top = "generate_password" /\ pc = "fill"
    /\ i >= remaining_length
    /\ FillTarget <= MaxLen
    /\ pc' = "shuffle"
    /\ UNCHANGED <<config, stack, charset_builder, available_chars, required_chars,
                   password_chars, remaining_length, i, password, stdout, stderr, result>>

\* password_chars.shuffle(&mut rng);
ShuffleStep ==
    /\ Top = "generate_password" /\ pc = "shuffle"
    /\ password_chars' \in Shuffle(password_chars)
    /\ pc' = "utf8"
    /\ UNCHANGED <<config, stack, charset_builder, available_chars, required_chars,
                   remaining_length, i, password, stdout, stderr, result>>

\* String::from_utf8 accepts the bytes; every byte below 128 is a character
\* of its own, and the pools hold no other byte
ValidUtf8(bytes) == \A k \in 1..Len(bytes) : bytes[k] < 128

\* String::from_utf8(password_chars).map_err(..)  -- generate_password returns,
\* and the ? of process_genpass propagates an error
FromUtf8 ==
    /\ Top = "generate_password" /\ pc = "utf8"
    /\ IF ValidUtf8(password_chars)
         THEN /\ password' = password_chars
              /\ stack' = Pop
              /\ pc' = "print"
              /\ UNCHANGED result
         ELSE Return(ErrUtf8) /\ UNCHANGED password
    /\ UNCHANGED <<config, charset_builder, available_chars, required_chars,
                   password_chars, remaining_length, i, stdout, stderr>>

(* ------------------------------------------------------------------ *)
(* Output                                                             *)
(* ------------------------------------------------------------------ *)

\* println!("{}", password);
Println ==
    /\ Top = "process_genpass" /\ pc = "print"
    /\ stdout' = Append(stdout, password)
    /\ pc' = "evaluate"
    /\ UNCHANGED <<config, stack, charset_builder, available_chars, required_chars,
                   password_chars, remaining_length, i, password, stderr, result>>

\* the values of zxcvbn::Score
Scores == 0..4

\* estimate.feedback(): None, or a feedback with or without a warning and
\* with or without suggestions
NoFeedback == [some |-> FALSE, warning |-> FALSE, suggestions |-> FALSE]
Feedbacks ==
    {NoFeedback} \cup [some : {TRUE}, warning : BOOLEAN, suggestions : BOOLEAN]

Line(text, arg) == [text |-> text, arg |-> arg]

\* match score { .. }
Label(score) ==
    CASE score \in {0, 1} ->
           "Weak password - consider adding more characters or complexity"
      [] score \in {2, 3} -> "Moderate password strength"
      [] score = 4 -> "Strong password"
      [] OTHER -> "Unknown password strength score"

\* what evaluate_password_strength writes with eprintln!; the line of a
\* suggestion stands for one line per suggestion
StrengthReport(score, feedback) ==
    <<Line("Password strength: {}", score), Line(Label(score), score)>>
    \o (IF feedback.some /\ feedback.warning THEN <<Line("Warning: {}", score)>> ELSE <<>>)
    \o (IF feedback.some /\ feedback.suggestions
          THEN <<Line("Suggestions:", score), Line("  - {}", score)>> ELSE <<>>)

\* Fault: a password of score 0 is refused.
EvaluatePasswordStrength_Reject ==
    /\ Top = "process_genpass" /\ pc = "evaluate"
    /\ \E score \in Scores, feedback \in Feedbacks :
         /\ stderr' = stderr \o StrengthReport(score, feedback)
         /\ Return(IF score = 0 THEN Err("Password too weak") ELSE Ok)
    /\ UNCHANGED <<config, charset_builder, available_chars, required_chars,
                   password_chars, remaining_length, i, password, stdout>>

\* evaluate_password_strength(&password);
\* Ok(())
EvaluatePasswordStrength ==
    /\ Top = "process_genpass" /\ pc = "evaluate"
    /\ \E score \in Scores, feedback \in Feedbacks :
         stderr' = stderr \o StrengthReport(score, feedback)
    /\ Return(Ok)
    /\ UNCHANGED <<config, charset_builder, available_chars, required_chars,
                   password_chars, remaining_length, i, password, stdout>>

Next ==
    \/ CallValidate
    \/ ValidateReturn
    \/ CallGenerate
    \/ AddUpper
    \/ AddLower
    \/ AddNumber
    \/ AddSymbol
    \/ Build
    \/ AppendRequired
    \/ ComputeRemaining
    \/ FillStep
    \/ FillDone
    \/ ShuffleStep
    \/ FromUtf8
    \/ Println
    \/ EvaluatePasswordStrength

Spec == Init /\ [][Next]_vars

(* ------------------------------------------------------------------ *)
(* CharSetBuilder on its own: the four add_charset calls and build,   *)
(* for every combination of the four flags                            *)
(* ------------------------------------------------------------------ *)

InitBuilder ==
    /\ config \in {c \in PasswordConfig : c.length <= MaxLen}
    /\ stack = <<"generate_password">>
    /\ pc = "add_upper"
    /\ charset_builder = NewBuilder
    /\ available_chars = <<>>
    /\ required_chars = <<>>
    /\ password_chars = <<>>
    /\ remaining_length = 0
    /\ i = 0
    /\ password = <<>>
    /\ stdout = <<>>
    /\ stderr = <<>>
    /\ result = Pending

NextBuilder ==
    \/ AddUpper
    \/ AddLower
    \/ AddNumber
    \/ AddSymbol
    \/ Build

SpecBuilder == InitBuilder /\ [][NextBuilder]_vars

(* ------------------------------------------------------------------ *)
(* Properties                                                         *)
(* ------------------------------------------------------------------ *)

Pools == <<UPPER, LOWER, NUMBER, SYMBOL>>

Enabled(c) == {k \in 1..4 : Flags(c)[k]}

\* the configurations the validator is meant to accept
Valid(c) ==
    /\ c.length >= 1
    /\ c.length <= 128
    /\ Enabled(c) # {}
    /\ c.length >= Cardinality(Enabled(c))

\* generate_password has returned Ok(password) to process_genpass
Generated == pc \in {"print", "evaluate"} \/ (pc = "done" /\ result = Ok)

InGenerate == Top = "generate_password"

\* C1: for every valid configuration and every outcome of the draws and of
\* the shuffle, the password generate_password returns has exactly
\* config.length characters.
C1_LengthExact ==
    (Valid(config) /\ Generated) => Len(password) = config.length

C1_Witness ==
    /\ Valid(config) /\ pc = "done" /\ result = Ok
    /\ Len(password) = config.length
    /\ config.length > Cardinality(Enabled(config))
    /\ Cardinality(Enabled(config)) >= 2

\* C2: the generated password holds at least one character of the pool of
\* every enabled class and no character of the pool of a class that is not
\* enabled.
C2_ClassCoverage ==
    (Valid(config) /\ Generated) =>
        \A k \in 1..4 :
            IF Flags(config)[k]
              THEN Range(password) \cap Range(Pools[k]) # {}
              ELSE Range(password) \cap Range(Pools[k]) = {}

C2_Witness ==
    /\ pc = "done" /\ result = Ok
    /\ config.length = 4
    /\ config.use_upper /\ config.use_lower /\ config.use_number /\ ~config.use_symbol
    /\ Range(password) \cap Range(SYMBOL) = {}
    /\ Range(password) \cap Range(NUMBER) # {}

\* the errors whose condition the configuration meets
CorrespondingErrors(c) ==
    (IF c.length = 0 THEN {ErrZeroLength} ELSE {})
    \cup (IF c.length > 128 THEN {ErrTooLong} ELSE {})
    \cup (IF Enabled(c) = {} THEN {ErrNoType} ELSE {})
    \cup (IF c.length < Cardinality(Enabled(c))
            THEN {ErrTooShort(c.length, Cardinality(Enabled(c)))} ELSE {})

\* C3: for a configuration with length 0, length above 128, no class or a
\* length below the number of enabled classes, process_genpass returns an
\* error of a condition the configuration meets, and writes neither a
\* password to standard output nor a strength report.
C3_InvalidRejected ==
    ~Valid(config) =>
        /\ stdout = <<>>
        /\ stderr = <<>>
        /\ pc \in {"validate", "check", "done"}
        /\ pc = "done" => result \in CorrespondingErrors(config)

C3_Witness ==
    /\ pc = "done"
    /\ config.length = 2 /\ Cardinality(Enabled(config)) = 4
    /\ result = ErrTooShort(2, 4)
    /\ stdout = <<>> /\ stderr = <<>>

\* C4 as stated: the generate operation itself validates the configuration
\* as its first step, that is, validate_password_config runs as a callee of
\* generate_password.
C4_ValidatedInsideGenerate ==
    Top = "validate_password_config" =>
        \E k \in 1..Len(stack) : stack[k] = "generate_password"

\* C4 as amended: process_genpass validates the configuration as its first
\* step, before generate_password is called, and propagates the error.  A
\* configuration that fails validation never enters generate_password: no
\* charset is assembled, no character is drawn, no fill count is computed,
\* and the error returned is the validator's.  generate_password itself
\* makes no call of the validator.
C4_ValidatedBeforeGenerate ==
    /\ Top = "validate_password_config" =>
           /\ stack = <<"process_genpass", "validate_password_config">>
           /\ charset_builder = NewBuilder
    /\ InGenerate => Valid(config)
    /\ ~Valid(config) =>
           /\ charset_builder = NewBuilder
           /\ available_chars = <<>>
           /\ required_chars = <<>>
           /\ password_chars = <<>>
           /\ pc \notin {"remaining", "fill", "shuffle", "utf8"}
           /\ pc = "done" => result \in CorrespondingErrors(config)

C4_Witness ==
    /\ pc = "done"
    /\ config.length = 0 /\ config.use_upper
    /\ result = ErrZeroLength
    /\ charset_builder = NewBuilder
    /\ password_chars = <<>>

\* I, l, 1, O, 0
Ambiguous == {73, 108, 49, 79, 48}

\* C5: the four pools are non-empty, pairwise disjoint and hold none of the
\* characters I, l, 1, O, 0: no pool the builder has loaded into chars holds
\* one of these characters.
C5_PoolsClean ==
    /\ \A k \in 1..4 : Pools[k] # <<>>
    /\ \A k, m \in 1..4 : k # m => Range(Pools[k]) \cap Range(Pools[m]) = {}
    /\ \A k \in 1..4 :
           Range(Pools[k]) \subseteq Range(charset_builder.chars) =>
               Range(Pools[k]) \cap Ambiguous = {}

\* the number of add_charset calls made so far
Stage ==
    CASE pc = "add_upper" -> 0
      [] pc = "add_lower" -> 1
      [] pc = "add_number" -> 2
      [] pc = "add_symbol" -> 3
      [] OTHER -> 4

\* the enabled classes among the first n, in the order Upper, Lower, Digit, Symbol
EnabledUpTo(n) == SelectSeq(<<1, 2, 3, 4>>, LAMBDA k : k <= n /\ Flags(config)[k])

RECURSIVE ConcatPools(_)
ConcatPools(classes) ==
    IF classes = <<>> THEN <<>>
    ELSE Pools[Head(classes)] \o ConcatPools(Tail(classes))

\* C6: after the add_charset calls made so far, required_chars has one entry
\* per enabled class among them, in the order Upper, Lower, Digit, Symbol,
\* the entry of a class taken from its pool, and chars is the concatenation
\* of the pools of those classes in that order (so a class that is not
\* enabled changes neither); after the four calls chars is non-empty exactly
\* when a class is enabled.
C6_Assembled ==
    LET e == EnabledUpTo(Stage) IN
    /\ Len(charset_builder.required_chars) = Len(e)
    /\ \A j \in 1..Len(e) :
           /\ j <= Len(charset_builder.required_chars)
           /\ charset_builder.required_chars[j] \in Range(Pools[e[j]])
    /\ charset_builder.chars = ConcatPools(e)
    /\ Stage = 4 =>
           /\ Len(charset_builder.required_chars) = Cardinality(Enabled(config))
           /\ charset_builder.chars # <<>> <=> Enabled(config) # {}

C6_Witness ==
    /\ pc = "build"
    /\ config.use_upper /\ ~config.use_lower /\ config.use_number /\ ~config.use_symbol
    /\ Len(charset_builder.required_chars) = 2
    /\ charset_builder.required_chars[2] \in Range(NUMBER)
    /\ charset_builder.chars = UPPER \o NUMBER

\* C7: for a valid configuration process_genpass writes the password to
\* standard output once, then writes the strength report to the diagnostic
\* stream only, and returns success for every score 0..4.
C7_AdvisoryReport ==
    /\ Len(stdout) <= 1
    /\ stdout # <<>> => (Valid(config) /\ stdout = <<password>>)
    /\ stderr # <<>> => (stdout = <<password>> /\ stderr[1].arg \in 0..4)
    /\ (Valid(config) /\ pc = "done") =>
           /\ result = Ok
           /\ stdout = <<password>>
           /\ Len(stderr) >= 2
           /\ stderr[1] = Line("Password strength: {}", stderr[1].arg)

C7_Witness ==
    /\ pc = "done" /\ result = Ok
    /\ stdout = <<password>>
    /\ stderr # <<>>
    /\ stderr[1].arg = 0

IsPermutation(a, b) ==
    /\ Len(a) = Len(b)
    /\ \A x \in Range(a) \cup Range(b) :
           Cardinality({k \in 1..Len(a) : a[k] = x})
             = Cardinality({k \in 1..Len(b) : b[k] = x})

\* what password_chars holds when the fill loop has ended
C8_BeforeShuffle ==
    (InGenerate /\ pc = "shuffle") =>
        LET e == EnabledUpTo(4) IN
        /\ Len(password_chars) = Len(e) + (config.length - Len(e))
        /\ \A j \in 1..Len(password_chars) :
               IF j <= Len(e)
                 THEN password_chars[j] \in Range(Pools[e[j]])
                 ELSE password_chars[j] \in Range(ConcatPools(e))

\* how password_chars is built, step by step
C8_Step ==
    /\ (pc = "append" /\ pc' = "remaining") => password_chars' = required_chars
    /\ (pc = "fill" /\ pc' = "fill") =>
           \E c \in Range(available_chars) : password_chars' = Append(password_chars, c)
    /\ (pc = "shuffle" /\ pc' = "utf8") => IsPermutation(password_chars', password_chars)
    /\ (pc = "utf8" /\ pc' = "print") => password' = password_chars
    /\ pc \notin {"append", "fill", "shuffle"} => password_chars' = password_chars

\* C8: the generated password is a rearrangement of the required characters
\* (one per enabled class) followed by config.length minus their number of
\* fill characters, each an element of the combined pool; the shuffle adds,
\* removes and alters no character.
C8_Permutation == []C8_BeforeShuffle /\ [][C8_Step]_vars

C8_Witness ==
    /\ pc = "utf8"
    /\ config.use_upper /\ config.use_symbol
    /\ Len(password_chars) > Cardinality(Enabled(config))
    /\ password_chars[1] \notin Range(UPPER)

\* C9: validate_password_config reports one error, chosen in the order zero
\* length, length above 128, no class, length below the number of enabled
\* classes: length 0 gives the zero-length error also when no class is
\* enabled, and the last error is given only for 1 <= length <= 128 with a
\* class enabled.
C9_CheckOrder ==
    /\ ~Valid(config) => pc \in {"validate", "check", "done"}
    /\ pc = "done" =>
           /\ config.length = 0 => result = ErrZeroLength
           /\ config.length > 128 => result = ErrTooLong
           /\ (config.length \in 1..128 /\ Enabled(config) = {}) => result = ErrNoType
           /\ (config.length \in 1..128 /\ Enabled(config) # {}
                 /\ config.length < Cardinality(Enabled(config))) =>
                  result = ErrTooShort(config.length, Cardinality(Enabled(config)))
           /\ result.msg = ErrTooShort(0, 0).msg =>
                  /\ config.length \in 1..128
                  /\ Enabled(config) # {}

C9_Witness ==
    /\ pc = "done"
    /\ config.length = 0 /\ Enabled(config) = {}
    /\ result = ErrZeroLength

\* C10: after validation the u8 subtraction config.length - password_chars.len()
\* does not underflow and gives a fill count in 0..127, and the casts to u8 of
\* the number of enabled classes and of the number of required characters
\* change nothing, both numbers being in 1..4.
C10_NoUnderflow ==
    /\ result # Panic
    /\ (Top = "validate_password_config" /\ config.length \in 1..128
          /\ Enabled(config) # {}) =>
           /\ RequiredTypes(config) \in 1..4
           /\ AsU8(RequiredTypes(config)) = RequiredTypes(config)
    /\ (InGenerate /\ pc = "remaining") =>
           /\ Len(password_chars) \in 1..4
           /\ AsU8(Len(password_chars)) = Len(password_chars)
           /\ config.length >= Len(password_chars)
    /\ (InGenerate /\ pc \in {"fill", "shuffle", "utf8"}) =>
           /\ remaining_length \in 0..127
           /\ remaining_length = config.length - Cardinality(Enabled(config))

C10_Witness ==
    /\ InGenerate /\ pc = "fill"
    /\ config.length = 128
    /\ remaining_length = 127

====
